---- MODULE Spec2Model ----
(***************************************************************************)
(* State-machine model of the LightPollution_FHE contract                  *)
(* (src/unnamed/part_000): the observation ledger, the region table and    *)
(* the decryption-oracle callback protocol.                                *)
(*                                                                         *)
(* The homomorphic library FHE is an external capability.  A euint32       *)
(* is modelled by the plaintext it opens to plus the "initialized" bit of  *)
(* its handle; FHE.requestDecryption returns a request id never returned   *)
(* before; FHE.checkSignatures either accepts the proof or reverts.        *)
(* Every transaction is atomic: a revert leaves the contract storage       *)
(* untouched.  The variable last records the most recent call and its      *)
(* outcome; issued, fulfilled, contributor, assigned and namedRegions are   *)
(* history variables; events is the bag of notifications emitted so far.   *)
(*                                                                         *)
(* The dashboard (src/frontend/web/src/App.tsx) runs against a separate    *)
(* key/value store, kvStore; flows holds, for each running dashboard flow, *)
(* its position, its local variables, the view of its session and the two  *)
(* record actions started from that view.  A flow yields at each await, so *)
(* one action is the code between two awaits.                              *)
(***************************************************************************)
EXTENDS Integers, Sequences, FiniteSets, Bags, TLC

\* ---------------------------------------------------------------- bounds
MaxObservations == 2
MaxRequests == 2
MaxAverageCalls == 2
MaxAggregateLength == 3
MaxFlows == 2
MaxRecordActions == 2
\* TLC integers are 32-bit: the two word sizes are scaled down, keeping
\* every plaintext of the input sets below both moduli
Uint32Modulus == 64
Uint256Modulus == 4096

\* ------------------------------------------------------------ input sets
Callers == {"alice", "bob"}
RegionCodes == {"EU-1", "AS-2"}
ObservationIds == 0..MaxObservations
RequestIds == 0..MaxRequests
\* the submit calls tried: caller, plaintext openings of the four
\* ciphertexts, region code
Submissions ==
  {[caller |-> "alice", ct |-> <<1, 2, 3, 4>>, regionCode |-> "EU-1"],
   [caller |-> "bob", ct |-> <<5, 6, 7, 8>>, regionCode |-> "AS-2"]}
\* plaintexts of the ciphertexts handed to aggregate, compare and
\* checkThreshold: the ends and the middle of the euint32 range
AlgebraValues == {0, 1, Uint32Modulus \div 2, Uint32Modulus - 1}
AggregateInputs == UNION {[1..n -> AlgebraValues] : n \in 0..MaxAggregateLength}
\* plaintext bundles an oracle callback may carry
Cleartexts == {<<1, 2, 3, 4>>, <<5, 6, 7, 8>>}

\* the dashboard flows that run concurrently, one per browser session
Flows == 1..MaxFlows

\* ------------------------------------------------------ integer widths
Uint32(x) == x % Uint32Modulus
Uint256(x) == x % Uint256Modulus

\* ------------------------------------------------ the FHE capability
UninitializedEuint32 == [initialized |-> FALSE, value |-> 0]
AsEuint32(v) == [initialized |-> TRUE, value |-> Uint32(v)]
IsInitializedNever(e) == FALSE
IsInitializedNonZero(e) == e.initialized /\ e.value # 0
IsInitialized(e) == e.initialized
ToBytes32(e) == e
\* FHE.add wraps around at the word size
FheAdd(a, b) == AsEuint32(a.value + b.value)
\* FHE.gt: the ebool is modelled by the boolean it opens to
FheGtOrEqual(a, b) == a.value >= b.value
FheGt(a, b) == a.value > b.value
\* FHE.checkSignatures: proof is the verdict of the signature check
CheckSignaturesSkipped(requestId, cleartexts, proof) == TRUE
CheckSignatures(requestId, cleartexts, proof) == proof
\* FHE.div on two encrypted operands; a zero divisor has no defined result
DivOutcomesDivisor(a, b) == {AsEuint32(b.value)}
DivOutcomes(a, b) ==
  IF b.value = 0 THEN {AsEuint32(0), AsEuint32(Uint32Modulus - 1)}
  ELSE {AsEuint32(a.value \div b.value)}
\* keccak256(abi.encodePacked(regionCode)) read as uint256: injective labels
RegionHash(regionCode) == IF regionCode = "EU-1" THEN 11 ELSE 22

\* ------------------------------------------------------- revert reasons
Ok == "ok"
AlreadyRevealed == "Already decrypted"
UnknownRequest == "Invalid request"
ProofVerificationFailed == "checkSignatures reverted"
RegionNotFound == "Region not found"
EmptyInput == "No observations"

\* ---------------------------------------------------------------- state
VARIABLES observationCount, encryptedObservations, decryptedObservations,
          encryptedRegionStats, regionList, requestToObservationId,
          events, blockTimestamp, averageCalls,
          issued, fulfilled, contributor, assigned, namedRegions, last,
          kvStore, flows

storage == <<observationCount, encryptedObservations, decryptedObservations,
             encryptedRegionStats, regionList, requestToObservationId>>
ghosts == <<issued, fulfilled, contributor, assigned, namedRegions>>
vars == <<observationCount, encryptedObservations, decryptedObservations,
          encryptedRegionStats, regionList, requestToObservationId,
          events, blockTimestamp, averageCalls,
          issued, fulfilled, contributor, assigned, namedRegions, last,
          kvStore, flows>>
\* the dashboard: the key/value store and the flows running against it
dashboard == <<kvStore, flows>>
\* everything the ledger contract owns or records
ledger == <<storage, events, blockTimestamp, averageCalls, ghosts, last>>

EmptyEncryptedObservation ==
  [observerId |-> 0,
   encryptedBrightness |-> UninitializedEuint32,
   encryptedLatitude |-> UninitializedEuint32,
   encryptedLongitude |-> UninitializedEuint32,
   encryptedTimestamp |-> UninitializedEuint32,
   submissionTime |-> 0]

EmptyDecryptedObservation ==
  [brightness |-> 0, latitude |-> 0, longitude |-> 0, timestamp |-> 0,
   isRevealed |-> FALSE]

NoCleartexts == <<0, 0, 0, 0>>

Call(op, caller, id, requestId, cleartexts, proof, result, ret) ==
  [op |-> op, caller |-> caller, id |-> id, requestId |-> requestId,
   cleartexts |-> cleartexts, proof |-> proof, result |-> result, ret |-> ret,
   region |-> "none"]

\* a call that names a region code
RegionCall(regionCode, result, ret) ==
  [Call("regionalAverage", "none", 0, 0, NoCleartexts, FALSE, result, ret)
     EXCEPT !.region = regionCode]

Event(name, id, arg) == [name |-> name, id |-> id, arg |-> arg]
Emit(e) == events (+) SetToBag({e})

\* ------------------------------------------------- the key/value store
\* `light_pollution_${recordId}` and "light_pollution_keys"
KeysKey == <<"light_pollution_", "keys">>
RecordKey(recordId) == <<"light_pollution_", recordId>>

\* `${Date.now()}-${Math.random().toString(36).substring(2, 9)}`: a fresh
\* id for every flow
NewRecordId(f) == ToString(f)

StoreKeys == {KeysKey} \cup {RecordKey(NewRecordId(f)) : f \in Flows}

\* ethers.toUtf8Bytes(JSON.stringify(value)) and its inverse; a key never
\* written reads as the empty byte string
EmptyBytes == <<>>
EncodeJson(value) == <<"utf8-json", value>>
DecodeJson(bytes) == bytes[2]

\* get(key) -> bytes and set(key, bytes) -> () of the store contract
GetData(store, key) == store[key]
SetData(store, key, bytes) == [store EXCEPT ![key] = bytes]

\* the local variables of a verifyRecord or rejectRecord call not running
IdleHandler ==
  [pc |-> "idle", recordId |-> "", recordData |-> <<>>, todo |-> <<>>,
   list |-> <<>>]

\* the local variables of a flow that has not started; records is the view
\* of its session, verify and reject the record actions started from it
IdleFlow ==
  [pc |-> "idle", keys |-> <<>>, todo |-> <<>>, list |-> <<>>, records |-> <<>>,
   verify |-> IdleHandler, reject |-> IdleHandler]

Init ==
  /\ kvStore = [k \in StoreKeys |-> EmptyBytes]
  /\ flows = [f \in Flows |-> IdleFlow]
  /\ observationCount = 0
  /\ encryptedObservations = [i \in ObservationIds |-> EmptyEncryptedObservation]
  /\ decryptedObservations = [i \in ObservationIds |-> EmptyDecryptedObservation]
  /\ encryptedRegionStats = [c \in RegionCodes |-> UninitializedEuint32]
  /\ regionList = <<>>
  /\ requestToObservationId = [r \in RequestIds |-> 0]
  /\ events = EmptyBag
  /\ blockTimestamp = 0
  /\ averageCalls = 0
  /\ issued = {}
  /\ fulfilled = {}
  /\ contributor = [i \in ObservationIds |-> "none"]
  /\ assigned = <<>>
  /\ namedRegions = <<>>
  /\ last = Call("none", "none", 0, 0, NoCleartexts, FALSE, Ok, 0)

\* ------------------------------------------- submitEncryptedObservation
\* the identity handed to the new observation, from the incremented count
NewIdBeforeIncrement(count) == count - 1
NewIdFirst(count) == 1
NewIdAfterNext(count) == count + 1
NewId(count) == count

NewEncryptedObservation(newId, ct, now) ==
  [observerId |-> newId,
   encryptedBrightness |-> AsEuint32(ct[1]),
   encryptedLatitude |-> AsEuint32(ct[2]),
   encryptedLongitude |-> AsEuint32(ct[3]),
   encryptedTimestamp |-> AsEuint32(ct[4]),
   submissionTime |-> now]

submitEncryptedObservation(caller, ct, regionCode, now) ==
  /\ LET count == observationCount + 1
         newId == NewId(count)
     IN /\ observationCount' = count
        /\ encryptedObservations' =
             [encryptedObservations EXCEPT ![newId] = NewEncryptedObservation(newId, ct, now)]
        /\ decryptedObservations' =
             [decryptedObservations EXCEPT ![newId] = EmptyDecryptedObservation]
        /\ IF ~IsInitialized(encryptedRegionStats[regionCode])
           THEN /\ encryptedRegionStats' =
                     [encryptedRegionStats EXCEPT ![regionCode] = AsEuint32(0)]
                /\ regionList' = Append(regionList, regionCode)
           ELSE UNCHANGED <<encryptedRegionStats, regionList>>
        /\ events' = Emit(Event("ObservationSubmitted", newId, now))
        /\ contributor' = [contributor EXCEPT ![newId] = caller]
        /\ assigned' = Append(assigned, newId)
        /\ namedRegions' = Append(namedRegions, regionCode)
        /\ last' = Call("submit", caller, newId, 0, NoCleartexts, FALSE, Ok, newId)
  /\ blockTimestamp' = now
  /\ UNCHANGED <<requestToObservationId, averageCalls, issued, fulfilled,
                 dashboard>>

\* block.timestamp: every submission is mined one time unit after the last
BlockTimestamp(previous) == previous + 1

\* the ledger is grown up to MaxObservations observations
Submit ==
  \E s \in Submissions :
    /\ observationCount < MaxObservations
    /\ submitEncryptedObservation(s.caller, s.ct, s.regionCode,
                                  BlockTimestamp(blockTimestamp))

\* a ledger grown past the 32-bit range of the count by one contributor
\* and one region; the ledger maps are followed on ObservationIds only, and
\* the slots written beyond it are read by no query of SpecLongLedger
LongLedgerSubmission ==
  [caller |-> "alice", ct |-> <<1, 2, 3, 4>>, regionCode |-> "EU-1"]

SubmitLong ==
  LET s == LongLedgerSubmission
  IN /\ observationCount < Uint32Modulus
     /\ submitEncryptedObservation(s.caller, s.ct, s.regionCode,
                                   BlockTimestamp(blockTimestamp))

\* ----------------------------------------- requestObservationDecryption
\* modifier onlyObserver: an empty body, every caller passes
onlyObserver(caller, observerId) == TRUE

\* require(!decryptedObservations[observationId].isRevealed, ...)
NotYetRevealedUnchecked(d) == TRUE
NotYetRevealed(d) == ~d.isRevealed

\* the four ciphertexts put up for reveal, in order
RevealCiphertexts(obs) ==
  <<ToBytes32(obs.encryptedBrightness), ToBytes32(obs.encryptedLatitude),
    ToBytes32(obs.encryptedLongitude), ToBytes32(obs.encryptedTimestamp)>>

\* FHE.requestDecryption hands out request ids from a counter
RequestDecryption(ciphertexts) == Cardinality(issued)

requestObservationDecryption(caller, observationId) ==
  LET obs == encryptedObservations[observationId]
      reqId == RequestDecryption(RevealCiphertexts(obs))
  IN \/ /\ onlyObserver(caller, obs.observerId)
        /\ ~NotYetRevealed(decryptedObservations[observationId])
        /\ last' = Call("requestReveal", caller, observationId, 0, NoCleartexts,
                        FALSE, AlreadyRevealed, 0)
        /\ UNCHANGED <<storage, events, blockTimestamp, averageCalls, ghosts,
                       dashboard>>
     \/ /\ onlyObserver(caller, obs.observerId)
        /\ NotYetRevealed(decryptedObservations[observationId])
        /\ Cardinality(issued) < MaxRequests
        /\ requestToObservationId' =
             [requestToObservationId EXCEPT ![reqId] = observationId]
        /\ events' = Emit(Event("DecryptionRequested", observationId, 0))
        /\ issued' = issued \cup {reqId}
        /\ last' = Call("requestReveal", caller, observationId, reqId, NoCleartexts,
                        FALSE, Ok, reqId)
        /\ UNCHANGED <<observationCount, encryptedObservations, decryptedObservations,
                       encryptedRegionStats, regionList, blockTimestamp,
                       averageCalls, fulfilled, contributor, assigned,
                       namedRegions, dashboard>>

RequestReveal ==
  \E caller \in Callers, observationId \in ObservationIds :
    requestObservationDecryption(caller, observationId)

\* --------------------------------------------------- decryptObservation
\* require(observationId != 0, "Invalid request")
RequestKnownUnchecked(observationId) == TRUE
RequestKnown(observationId) == observationId # 0

\* require(!dObs.isRevealed, "Already decrypted")
StillUnrevealed(dObs) == ~dObs.isRevealed

\* abi.decode(cleartexts, (float[])) and the four field writes
DecodeResultsSwapped(dObs, results) ==
  [dObs EXCEPT !.brightness = results[1],
               !.latitude = results[3],
               !.longitude = results[2],
               !.timestamp = Uint256(results[4]),
               !.isRevealed = TRUE]
DecodeResultsUnrevealed(dObs, results) ==
  [dObs EXCEPT !.brightness = results[1],
               !.latitude = results[2],
               !.longitude = results[3],
               !.timestamp = Uint256(results[4])]
DecodeResults(dObs, results) ==
  [dObs EXCEPT !.brightness = results[1],
               !.latitude = results[2],
               !.longitude = results[3],
               !.timestamp = Uint256(results[4]),
               !.isRevealed = TRUE]

decryptObservation(requestId, cleartexts, proof) ==
  LET observationId == requestToObservationId[requestId]
      dObs == decryptedObservations[observationId]
      Revert(reason) ==
        /\ last' = Call("fulfill", "oracle", observationId, requestId, NoCleartexts,
                        proof, reason, 0)
        /\ UNCHANGED <<storage, events, blockTimestamp, averageCalls, ghosts,
                       dashboard>>
  IN \/ /\ ~RequestKnown(observationId)
        /\ Revert(UnknownRequest)
     \/ /\ RequestKnown(observationId)
        /\ ~StillUnrevealed(dObs)
        /\ Revert(AlreadyRevealed)
     \/ /\ RequestKnown(observationId)
        /\ StillUnrevealed(dObs)
        /\ ~CheckSignatures(requestId, cleartexts, proof)
        /\ Revert(ProofVerificationFailed)
     \/ /\ RequestKnown(observationId)
        /\ StillUnrevealed(dObs)
        /\ CheckSignatures(requestId, cleartexts, proof)
        /\ decryptedObservations' =
             [decryptedObservations EXCEPT ![observationId] = DecodeResults(dObs, cleartexts)]
        /\ events' = Emit(Event("ObservationDecrypted", observationId, 0))
        /\ fulfilled' = fulfilled \cup {requestId}
        /\ last' = Call("fulfill", "oracle", observationId, requestId, cleartexts,
                        proof, Ok, 0)
        /\ UNCHANGED <<observationCount, encryptedObservations, encryptedRegionStats,
                       regionList, requestToObservationId, blockTimestamp,
                       averageCalls, issued, contributor, assigned,
                       namedRegions, dashboard>>

\* the bundles tried with a callback: one that reverts before line 108
\* never decodes its bundle, so a single bundle stands for all of them
CallbackCleartexts(requestId, proof) ==
  LET observationId == requestToObservationId[requestId]
  IN IF proof /\ observationId # 0
          /\ ~decryptedObservations[observationId].isRevealed
     THEN Cleartexts
     ELSE {NoCleartexts}

CallbackInputs ==
  {c \in [requestId : RequestIds, cleartexts : Cleartexts \cup {NoCleartexts},
          proof : BOOLEAN] :
     c.cleartexts \in CallbackCleartexts(c.requestId, c.proof)}

Fulfill ==
  \E c \in CallbackInputs :
    decryptObservation(c.requestId, c.cleartexts, c.proof)

\* ------------------------------------------ calculateRegionalBrightness
calculateRegionalBrightness(regionCode) ==
  \/ /\ ~IsInitialized(encryptedRegionStats[regionCode])
     /\ last' = RegionCall(regionCode, RegionNotFound, 0)
     /\ UNCHANGED <<storage, events, blockTimestamp, averageCalls, ghosts,
                       dashboard>>
  \/ /\ IsInitialized(encryptedRegionStats[regionCode])
     /\ averageCalls < MaxAverageCalls
     /\ \E regionalAvg \in DivOutcomes(encryptedRegionStats[regionCode],
                                       AsEuint32(Uint32(observationCount))) :
          last' = RegionCall(regionCode, Ok, regionalAvg.value)
     /\ events' = Emit(Event("PollutionMapUpdated", RegionHash(regionCode), 0))
     /\ averageCalls' = averageCalls + 1
     /\ UNCHANGED <<storage, blockTimestamp, ghosts, dashboard>>

RegionalAverage ==
  \E regionCode \in RegionCodes :
    calculateRegionalBrightness(regionCode)

\* ---------------------------------------------- getDecryptedObservation
getDecryptedObservationOffByOne(observationId) ==
  LET d == decryptedObservations[observationId - 1]
  IN <<d.brightness, d.latitude, d.longitude, d.timestamp, d.isRevealed>>
getDecryptedObservation(observationId) ==
  LET d == decryptedObservations[observationId]
  IN <<d.brightness, d.latitude, d.longitude, d.timestamp, d.isRevealed>>

GetDecrypted ==
  \E observationId \in ObservationIds :
    /\ last' = Call("getDecrypted", "none", observationId, 0, NoCleartexts, FALSE,
                    Ok, getDecryptedObservation(observationId))
    /\ UNCHANGED <<storage, events, blockTimestamp, averageCalls, ghosts,
                       dashboard>>

\* ------------------------------------- compareBrightness / threshold
compareBrightness(brightness1, brightness2) == FheGt(brightness1, brightness2)

checkPollutionThreshold(brightness, threshold) == FheGt(brightness, threshold)

\* a pure call: its plaintext inputs are kept in the cleartexts field
PureCall(op, inputs, result, ret) ==
  Call(op, "none", 0, 0, inputs, FALSE, result, ret)

Compare ==
  \E a \in AlgebraValues, b \in AlgebraValues :
    /\ last' = PureCall("compare", <<a, b>>, Ok,
                        compareBrightness(AsEuint32(a), AsEuint32(b)))
    /\ UNCHANGED <<storage, events, blockTimestamp, averageCalls, ghosts,
                       dashboard>>

CheckThreshold ==
  \E a \in AlgebraValues, b \in AlgebraValues :
    /\ last' = PureCall("checkThreshold", <<a, b>>, Ok,
                        checkPollutionThreshold(AsEuint32(a), AsEuint32(b)))
    /\ UNCHANGED <<storage, events, blockTimestamp, averageCalls, ghosts,
                       dashboard>>

\* ------------------------------------------------ aggregateObservations
\* require(brightnessValues.length > 0, "No observations")
NonEmptyUnchecked(brightnessValues) == TRUE
NonEmpty(brightnessValues) == Len(brightnessValues) > 0

\* the loop of lines 175-178, after i iterations
RECURSIVE AggregateSum(_, _)
AggregateSum(brightnessValues, i) ==
  IF i = 0 THEN AsEuint32(0)
  ELSE FheAdd(AggregateSum(brightnessValues, i - 1), brightnessValues[i])

aggregateObservations(inputs) ==
  LET brightnessValues == [k \in 1..Len(inputs) |-> AsEuint32(inputs[k])]
  IN \/ /\ ~NonEmpty(brightnessValues)
        /\ last' = PureCall("aggregate", inputs, EmptyInput, 0)
        /\ UNCHANGED <<storage, events, blockTimestamp, averageCalls, ghosts,
                       dashboard>>
     \/ /\ NonEmpty(brightnessValues)
        /\ \E mean \in DivOutcomes(AggregateSum(brightnessValues, Len(brightnessValues)),
                                    AsEuint32(Uint32(Len(brightnessValues)))) :
             last' = PureCall("aggregate", inputs, Ok, mean.value)
        /\ UNCHANGED <<storage, events, blockTimestamp, averageCalls, ghosts,
                       dashboard>>

Aggregate ==
  \E inputs \in AggregateInputs :
    aggregateObservations(inputs)

\* ------------------------------------------------- dashboard: loadRecords
\* lines 97-105: the index read back, empty when the key was never written
ParseKeys(keysBytes) ==
  IF Len(keysBytes) > 0 THEN DecodeJson(keysBytes) ELSE <<>>

\* lines 115-122: the view of a stored record
RecordView(key, recordData) ==
  [id |-> key,
   encryptedBrightness |-> recordData.data,
   timestamp |-> recordData.timestamp,
   location |-> recordData.location,
   contributor |-> recordData.contributor,
   status |-> recordData.status]

\* line 132: list.sort((a, b) => b.timestamp - a.timestamp)
RECURSIVE SortByTimestampDesc(_)
SortByTimestampDesc(list) ==
  IF list = <<>> THEN <<>>
  ELSE LET sorted == SortByTimestampDesc(Tail(list))
           before == SelectSeq(sorted, LAMBDA r : r.timestamp > Head(list).timestamp)
           after == SelectSeq(sorted, LAMBDA r : r.timestamp <= Head(list).timestamp)
       IN before \o <<Head(list)>> \o after

\* lines 96-107: the index is read and the loop over its keys starts
LoadKeys(f) ==
  /\ flows[f].pc = "reload"
  /\ flows' = [flows EXCEPT ![f].pc = "loading",
                            ![f].todo = ParseKeys(GetData(kvStore, KeysKey)),
                            ![f].list = <<>>]
  /\ UNCHANGED <<kvStore, ledger>>

\* lines 109-130: one turn of the loop, one getData
LoadRecord(f) ==
  /\ flows[f].pc = "loading"
  /\ flows[f].todo # <<>>
  /\ LET key == Head(flows[f].todo)
         recordBytes == GetData(kvStore, RecordKey(key))
         list == IF Len(recordBytes) > 0
                 THEN Append(flows[f].list, RecordView(key, DecodeJson(recordBytes)))
                 ELSE flows[f].list
     IN flows' = [flows EXCEPT ![f].todo = Tail(flows[f].todo),
                               ![f].list = list]
  /\ UNCHANGED <<kvStore, ledger>>

\* lines 132-133: the sorted list becomes the session's view
LoadDone(f) ==
  /\ flows[f].pc = "loading"
  /\ flows[f].todo = <<>>
  /\ flows' = [flows EXCEPT ![f].pc = "done",
                            ![f].records = SortByTimestampDesc(flows[f].list)]
  /\ UNCHANGED <<kvStore, ledger>>

\* ------------------------------------------------ dashboard: submitRecord
\* lines 168-174
NewRecordData(f) ==
  [data |-> "FHE", timestamp |-> f, contributor |-> f, location |-> "loc",
   status |-> "pending"]

\* a rejected or reverted call throws into the catch block of line 219
Throw(f) ==
  /\ flows' = [flows EXCEPT ![f].pc = "failed"]
  /\ UNCHANGED <<kvStore, ledger>>

\* lines 157-180: the record body is stored under its own key
SubmitStoreBodySkipped(f) ==
  /\ flows[f].pc = "idle"
  /\ \/ /\ flows' = [flows EXCEPT ![f].pc = "bodyStored"]
        /\ UNCHANGED <<kvStore, ledger>>
     \/ Throw(f)

SubmitStoreBody(f) ==
  /\ flows[f].pc = "idle"
  /\ \/ /\ kvStore' = SetData(kvStore, RecordKey(NewRecordId(f)),
                               EncodeJson(NewRecordData(f)))
        /\ flows' = [flows EXCEPT ![f].pc = "bodyStored"]
        /\ UNCHANGED ledger
     \/ Throw(f)

\* lines 182-193: the index is read and the new id pushed on the local copy
SubmitReadKeys(f) ==
  /\ flows[f].pc = "bodyStored"
  /\ \/ /\ flows' = [flows EXCEPT
                        ![f].pc = "keysRead",
                        ![f].keys = Append(ParseKeys(GetData(kvStore, KeysKey)),
                                           NewRecordId(f))]
        /\ UNCHANGED <<kvStore, ledger>>
     \/ Throw(f)

\* lines 195-208: the local copy is stored as the index, then loadRecords
SubmitStoreKeys(f) ==
  /\ flows[f].pc = "keysRead"
  /\ \/ /\ kvStore' = SetData(kvStore, KeysKey, EncodeJson(flows[f].keys))
        /\ flows' = [flows EXCEPT ![f].pc = "reload"]
        /\ UNCHANGED ledger
     \/ Throw(f)

submitRecord(f) ==
  \/ SubmitStoreBody(f)
  \/ SubmitReadKeys(f)
  \/ SubmitStoreKeys(f)
  \/ LoadKeys(f)
  \/ LoadRecord(f)
  \/ LoadDone(f)

\* --------------------------------- dashboard: verifyRecord, rejectRecord
\* line 370: the session's account is the record's contributor (the case
\* folding of the two addresses is left out)
isOwner(f, address) == f = address

\* lines 269-272 and 335-338
StatusWritten(op) == IF op = "verify" THEN "verified" ELSE "rejected"
UpdatedRecord(recordData, op) == [recordData EXCEPT !.status = StatusWritten(op)]

\* the verifyRecord and rejectRecord calls made so far
RecordActionCalls ==
  {call \in Flows \X {"verify", "reject"} : flows[call[1]][call[2]].pc # "idle"}

\* lines 645-660: a button of a record the view shows as pending is clicked
RecordActionClick(f, op) ==
  /\ flows[f][op].pc = "idle"
  /\ Cardinality(RecordActionCalls) < MaxRecordActions
  /\ \E k \in 1..Len(flows[f].records) :
       LET record == flows[f].records[k]
       IN /\ isOwner(f, record.contributor)
          /\ record.status = "pending"
          /\ flows' = [flows EXCEPT ![f][op].pc = "started",
                                    ![f][op].recordId = record.id]
  /\ UNCHANGED <<kvStore, ledger>>

\* a call that throws, or "Record not found", ends the handler in its catch
\* block (lines 291 and 357); a handler that has ended stays "failed" or
\* "done", so that a session makes each of the two calls once
RecordActionThrow(f, op) ==
  /\ flows' = [flows EXCEPT ![f][op] = [IdleHandler EXCEPT !.pc = "failed"]]
  /\ UNCHANGED <<kvStore, ledger>>

\* lines 252-267 and 318-333: the stored body is read
RecordActionRead(f, op) ==
  /\ flows[f][op].pc = "started"
  /\ LET recordBytes == GetData(kvStore, RecordKey(flows[f][op].recordId))
     IN \/ /\ Len(recordBytes) > 0
           /\ flows' = [flows EXCEPT ![f][op].pc = "read",
                                     ![f][op].recordData = DecodeJson(recordBytes)]
           /\ UNCHANGED <<kvStore, ledger>>
        \/ RecordActionThrow(f, op)

\* lines 269-277 and 335-343: the body is stored with the new status
RecordActionStore(f, op) ==
  /\ flows[f][op].pc = "read"
  /\ \/ /\ kvStore' = SetData(kvStore, RecordKey(flows[f][op].recordId),
                               EncodeJson(UpdatedRecord(flows[f][op].recordData, op)))
        /\ flows' = [flows EXCEPT ![f][op].pc = "reload"]
        /\ UNCHANGED ledger
     \/ RecordActionThrow(f, op)

\* lines 286 and 352: loadRecords, with the handler's own locals
RecordActionLoadKeys(f, op) ==
  /\ flows[f][op].pc = "reload"
  /\ flows' = [flows EXCEPT ![f][op].pc = "loading",
                            ![f][op].todo = ParseKeys(GetData(kvStore, KeysKey)),
                            ![f][op].list = <<>>]
  /\ UNCHANGED <<kvStore, ledger>>

RecordActionLoadRecord(f, op) ==
  /\ flows[f][op].pc = "loading"
  /\ flows[f][op].todo # <<>>
  /\ LET key == Head(flows[f][op].todo)
         recordBytes == GetData(kvStore, RecordKey(key))
         list == IF Len(recordBytes) > 0
                 THEN Append(flows[f][op].list,
                             RecordView(key, DecodeJson(recordBytes)))
                 ELSE flows[f][op].list
     IN flows' = [flows EXCEPT ![f][op].todo = Tail(flows[f][op].todo),
                               ![f][op].list = list]
  /\ UNCHANGED <<kvStore, ledger>>

RecordActionLoadDone(f, op) ==
  /\ flows[f][op].pc = "loading"
  /\ flows[f][op].todo = <<>>
  /\ flows' = [flows EXCEPT ![f][op] = [IdleHandler EXCEPT !.pc = "done"],
                            ![f].records = SortByTimestampDesc(flows[f][op].list)]
  /\ UNCHANGED <<kvStore, ledger>>

recordAction(f, op) ==
  \/ RecordActionClick(f, op)
  \/ RecordActionRead(f, op)
  \/ RecordActionStore(f, op)
  \/ RecordActionLoadKeys(f, op)
  \/ RecordActionLoadRecord(f, op)
  \/ RecordActionLoadDone(f, op)

verifyRecord(f) == recordAction(f, "verify")

rejectRecord(f) == recordAction(f, "reject")

\* ------------------------------------------------------- specifications
\* the reveal protocol: submissions, reveal requests and oracle callbacks
Next ==
  \/ Submit
  \/ RequestReveal
  \/ Fulfill

Spec == Init /\ [][Next]_vars

\* the reveal protocol with a fair oracle: every request id returned by a
\* successful requestObservationDecryption is answered, at least once, by
\* a callback whose proof FHE.checkSignatures accepts
RequestIssued(r) ==
  /\ last.op = "requestReveal"
  /\ last.result = Ok
  /\ last.ret = r

OracleAnswered(r) ==
  /\ last.op = "fulfill"
  /\ last.requestId = r
  /\ last.proof

OracleFair == \A r \in RequestIds : RequestIssued(r) ~> OracleAnswered(r)

SpecOracleFair == Init /\ [][Next]_vars /\ OracleFair

\* the whole contract interface
NextLedger ==
  \/ Submit
  \/ RequestReveal
  \/ Fulfill
  \/ RegionalAverage
  \/ GetDecrypted

SpecLedger == Init /\ [][NextLedger]_vars

\* submissions and the read-only queries on the ledger and the region table
NextQueries ==
  \/ Submit
  \/ RegionalAverage
  \/ GetDecrypted

SpecQueries == Init /\ [][NextQueries]_vars

\* the pure functions on ciphertexts
NextAlgebra ==
  \/ Aggregate
  \/ Compare
  \/ CheckThreshold

SpecAlgebra == Init /\ [][NextAlgebra]_vars

\* the whole contract interface with the pure functions called between the
\* ledger operations, each on a short input
ShortAggregateInputs == {<<>>, <<1>>}

AggregateShort ==
  \E inputs \in ShortAggregateInputs :
    aggregateObservations(inputs)

CompareShort ==
  \E a \in {0, 1} :
    /\ last' = PureCall("compare", <<a, 0>>, Ok,
                        compareBrightness(AsEuint32(a), AsEuint32(0)))
    /\ UNCHANGED <<storage, events, blockTimestamp, averageCalls, ghosts,
                       dashboard>>

NextFrame ==
  \/ Submit
  \/ RequestReveal
  \/ Fulfill
  \/ RegionalAverage
  \/ GetDecrypted
  \/ AggregateShort
  \/ CompareShort

SpecFrame == Init /\ [][NextFrame]_vars

\* the dashboard: concurrent submitRecord flows on one key/value store
NextDashboard == \E f \in Flows : submitRecord(f)

SpecDashboard == Init /\ [][NextDashboard]_vars

\* the dashboard with the record actions: in every session one
\* submitRecord, then verifyRecord and rejectRecord calls started from the
\* session's view, one of each kind in a session and MaxRecordActions in all
NextRecords ==
  \E f \in Flows :
    \/ submitRecord(f)
    \/ verifyRecord(f)
    \/ rejectRecord(f)

SpecRecords == Init /\ [][NextRecords]_vars

\* a long-lived ledger and the regional average on it
NextLongLedger ==
  \/ SubmitLong
  \/ RegionalAverage

SpecLongLedger == Init /\ [][NextLongLedger]_vars

\* =============================================================== claims
\* error kinds of the design that no code path of the contract raises
Unauthorized == "Unauthorized"
RequestAlreadyPending == "RequestAlreadyPending"
NotFound == "NotFound"

AssignedIds == 1..observationCount
PendingRequests(o) ==
  {r \in issued \ fulfilled : requestToObservationId[r] = o}
PlaintextFields(d) == <<d.brightness, d.latitude, d.longitude, d.timestamp>>

\* C1: while a reveal request on an observation is unfulfilled, a second
\* requestReveal on it is rejected with RequestAlreadyPending, so every
\* submitted observation has at most one unfulfilled request.
C1_AtMostOnePendingRequest ==
  /\ \A o \in AssignedIds : Cardinality(PendingRequests(o)) <= 1
  /\ (last.op = "requestReveal" /\ last.id \in AssignedIds
        /\ PendingRequests(last.id) \ {last.ret} # {})
       => last.result = RequestAlreadyPending

\* C2: a fulfill that carries a request id on which a fulfill has already
\* succeeded (here: for a submitted observation) fails with UnknownRequest
\* and with no other outcome.
C2_ReplayFailsUnknownRequest ==
  [][(last'.op = "fulfill" /\ last'.requestId \in fulfilled
        /\ requestToObservationId[last'.requestId] \in AssignedIds)
       => last'.result = UnknownRequest]_vars

\* C3: revealed is monotone: a decrypted record that shows revealed = true
\* shows revealed = true after every step.
C3_RevealedMonotone ==
  [][\A i \in ObservationIds :
       decryptedObservations[i].isRevealed
         => decryptedObservations'[i].isRevealed]_vars

\* C4: once a decrypted record is revealed its four plaintext fields never
\* change again.
C4_PlaintextWrittenOnce ==
  [][\A i \in ObservationIds :
       decryptedObservations[i].isRevealed
         => PlaintextFields(decryptedObservations'[i])
              = PlaintextFields(decryptedObservations[i])]_vars

\* C5: a requestReveal on a submitted observation by anyone but its
\* contributor fails with Unauthorized and stores no correlation.
C5_OnlyContributorMayRequest ==
  [][(last'.op = "requestReveal" /\ last'.id \in AssignedIds
        /\ last'.caller # contributor[last'.id])
       => (last'.result = Unauthorized
           /\ UNCHANGED <<storage, events>>)]_vars

\* C6 as stated: every fulfill whose proof does not verify fails with
\* ProofVerificationFailed and changes nothing.
C6_BadProofAlwaysProofVerificationFailed ==
  [][(last'.op = "fulfill" /\ ~last'.proof)
       => (last'.result = ProofVerificationFailed
           /\ UNCHANGED <<storage, events>>)]_vars

\* C6 as amended: a fulfill whose proof does not verify fails and changes
\* nothing (records, pending-request table, region table, count); it fails
\* with ProofVerificationFailed when its request id is correlated to an
\* observation not yet revealed, with UnknownRequest when the request id has
\* no correlation and with AlreadyRevealed when the correlated observation
\* is already revealed.
C6_BadProofFailsWithoutMutation ==
  [][(last'.op = "fulfill" /\ ~last'.proof)
       => LET o == requestToObservationId[last'.requestId]
          IN /\ UNCHANGED <<storage, events>>
             /\ last'.result =
                  IF o = 0 THEN UnknownRequest
                  ELSE IF decryptedObservations[o].isRevealed THEN AlreadyRevealed
                  ELSE ProofVerificationFailed]_vars

C6_Witness ==
  /\ last.op = "fulfill"
  /\ ~last.proof
  /\ last.result = ProofVerificationFailed
  /\ requestToObservationId[last.requestId] \in AssignedIds

\* C7: a fulfill with a request id that no successful requestReveal has
\* returned fails with UnknownRequest and leaves the storage as it was.
C7_UnissuedRequestIdRejected ==
  [][(last'.op = "fulfill" /\ last'.requestId \notin issued)
       => (last'.result = UnknownRequest
           /\ UNCHANGED <<storage, events>>)]_vars

C7_Witness ==
  /\ last.op = "fulfill"
  /\ last.requestId \notin issued
  /\ last.result = UnknownRequest
  /\ last.proof
  /\ issued # {}
  /\ observationCount > 0

\* C8: on a submitted, unrevealed observation requestReveal succeeds and
\* stores the correlation under the returned request id, and a fulfill with
\* that request id and a valid proof succeeds and leaves getDecrypted with
\* revealed = true and the four fields equal to bundle elements 0..3.
C8_RevealWritesBundle ==
  [][/\ (last'.op = "requestReveal" /\ last'.id \in AssignedIds
           /\ ~decryptedObservations[last'.id].isRevealed)
          => (last'.result = Ok
              /\ requestToObservationId'[last'.ret] = last'.id)
     /\ \A o \in AssignedIds :
          (last'.op = "fulfill" /\ last'.proof
             /\ requestToObservationId[last'.requestId] = o
             /\ ~decryptedObservations[o].isRevealed)
            => (last'.result = Ok
                /\ getDecryptedObservation(o)' =
                     <<last'.cleartexts[1], last'.cleartexts[2],
                       last'.cleartexts[3], last'.cleartexts[4], TRUE>>)]_vars

C8_Witness ==
  /\ last.op = "fulfill"
  /\ last.result = Ok
  /\ last.id \in AssignedIds
  /\ last.requestId \in issued
  /\ getDecryptedObservation(last.id) = <<5, 6, 7, 8, TRUE>>

\* C9: requestReveal on an observation whose decrypted record is revealed
\* fails with AlreadyRevealed, stores no correlation and emits nothing.
C9_RequestOnRevealedRejected ==
  [][(last'.op = "requestReveal" /\ decryptedObservations[last'.id].isRevealed)
       => (last'.result = AlreadyRevealed
           /\ UNCHANGED <<requestToObservationId, issued, events>>)]_vars

C9_Witness ==
  /\ last.op = "requestReveal"
  /\ last.result = AlreadyRevealed
  /\ last.id \in AssignedIds
  /\ decryptedObservations[last.id].isRevealed

\* C10: the k-th successful submit is assigned identity k, and the
\* observation count equals the number of successful submits.
C10_SequentialIdentities ==
  /\ observationCount = Len(assigned)
  /\ \A k \in 1..Len(assigned) : assigned[k] = k
  /\ \A i \in ObservationIds :
       Cardinality({e \in BagToSet(events) :
                      e.name = "ObservationSubmitted" /\ e.id = i
                        /\ CopiesIn(e, events) = 1})
         = IF i \in AssignedIds THEN 1 ELSE 0

C10_Witness ==
  /\ Len(assigned) >= 2
  /\ issued # {}
  /\ fulfilled # {}

\* the region codes named by the submits so far, each once, in order of
\* first appearance
RECURSIVE FirstAppearances(_)
FirstAppearances(codes) ==
  IF codes = <<>> THEN <<>>
  ELSE LET front == SubSeq(codes, 1, Len(codes) - 1)
           code == codes[Len(codes)]
           seen == FirstAppearances(front)
       IN IF \E k \in 1..Len(seen) : seen[k] = code
          THEN seen
          ELSE Append(seen, code)

\* C11: the region registration list holds each distinct region code named
\* by a submit exactly once, in order of first appearance, and nothing
\* else.
C11_RegionListFirstAppearances ==
  regionList = FirstAppearances(namedRegions)

C11_Witness ==
  /\ Len(namedRegions) = 2
  /\ namedRegions[1] = namedRegions[2]
  /\ Len(regionList) = 1

\* sum of the brightness plaintexts submitted under a region code
RECURSIVE BrightnessSum(_, _)
BrightnessSum(code, n) ==
  IF n = 0 THEN 0
  ELSE BrightnessSum(code, n - 1)
       + (IF namedRegions[n] = code
          THEN encryptedObservations[n].encryptedBrightness.value
          ELSE 0)

\* C12: the running sum of every registered region opens to the sum of the
\* brightness values of the observations submitted under that region.
C12_RegionSumAccumulates ==
  \A code \in RegionCodes :
    IsInitialized(encryptedRegionStats[code])
      => encryptedRegionStats[code].value
           = Uint32(BrightnessSum(code, Len(namedRegions)))

C14_RegionNotFoundIffUnnamed ==
  [][last'.op = "regionalAverage"
       => (last'.result = RegionNotFound
             <=> ~\E k \in 1..Len(namedRegions) : namedRegions[k] = last'.region)]_vars

C14_Witness ==
  /\ last.op = "regionalAverage"
  /\ last.result = RegionNotFound
  /\ last.region = "AS-2"
  /\ regionList = <<"EU-1">>

\* C15: getDecrypted fails with NotFound for every identity that submit
\* never assigned (0 and every id above the observation count).
C15_GetDecryptedUnassignedNotFound ==
  (last.op = "getDecrypted" /\ last.id \notin AssignedIds)
    => last.result = NotFound

\* C16: for every assigned identity on which no fulfill has succeeded,
\* getDecrypted returns revealed = false and four zero fields, also while a
\* reveal request is pending and after failed fulfill attempts.
FulfillSucceededOn(i) ==
  CopiesIn(Event("ObservationDecrypted", i, 0), events) > 0

C16_NeverRevealedReadsZero ==
  \A i \in AssignedIds :
    ~FulfillSucceededOn(i)
      => getDecryptedObservation(i) = <<0, 0, 0, 0, FALSE>>

C16_Witness ==
  /\ last.op = "fulfill"
  /\ last.result = ProofVerificationFailed
  /\ last.id = 2
  /\ ~FulfillSucceededOn(2)
  /\ FulfillSucceededOn(1)
  /\ getDecryptedObservation(1)[5]
  /\ getDecryptedObservation(2) = <<0, 0, 0, 0, FALSE>>

\* the lifecycle position of an observation identity
ObservationState(i) ==
  IF decryptedObservations[i].isRevealed THEN "Revealed"
  ELSE IF \E r \in issued : requestToObservationId[r] = i THEN "RequestPending"
  ELSE IF i \in AssignedIds THEN "Submitted"
  ELSE "Unassigned"

LifecycleSteps ==
  {<<"Unassigned", "Submitted">>, <<"Submitted", "RequestPending">>,
   <<"RequestPending", "Revealed">>}

\* C20: every observation identity follows only Submitted -> RequestPending
\* -> Revealed: it is first assigned by submit, becomes RequestPending only
\* after that, becomes Revealed only from RequestPending, and never moves
\* back.
C20_LifecycleOrder ==
  [][\A i \in 1..MaxObservations :
       \/ ObservationState(i)' = ObservationState(i)
       \/ <<ObservationState(i), ObservationState(i)'>> \in LifecycleSteps]_vars

RECURSIVE PlainSum(_, _)
PlainSum(inputs, i) ==
  IF i = 0 THEN 0 ELSE PlainSum(inputs, i - 1) + inputs[i]

\* C17: for every non-empty sequence of 32-bit values aggregate returns a
\* ciphertext that opens to the integer quotient (v1 + ... + vn) / n.
C17_AggregateIsMean ==
  (last.op = "aggregate" /\ Len(last.cleartexts) >= 1)
    => (/\ last.result = Ok
        /\ last.ret = PlainSum(last.cleartexts, Len(last.cleartexts))
                        \div Len(last.cleartexts))

\* C18: aggregate fails with EmptyInput on the empty sequence, returning no
\* quotient, and on no other input.
C18_EmptyInputIffEmpty ==
  last.op = "aggregate"
    => (/\ last.result = EmptyInput <=> Len(last.cleartexts) = 0
        /\ last.result # EmptyInput => last.result = Ok
        /\ last.result = EmptyInput => last.ret = 0)

C18_Witness ==
  /\ last.op = "aggregate"
  /\ last.cleartexts = <<>>
  /\ last.result = EmptyInput

\* C19: compare(a, b) opens to true exactly when plaintext(a) > plaintext(b)
\* (false when equal or smaller), and checkThreshold(value, threshold)
\* opens to the same result.
C19_CompareIsGreaterThan ==
  last.op \in {"compare", "checkThreshold"}
    => (/\ last.result = Ok
        /\ last.ret = (last.cleartexts[1] > last.cleartexts[2]))

C19_Witness ==
  /\ last.op = "checkThreshold"
  /\ last.cleartexts[1] = last.cleartexts[2]
  /\ last.cleartexts[1] > 0
  /\ last.ret = FALSE

\* C21: a request id returned by a successful requestReveal stays
\* correlated to the identity it was issued for: no later step overwrites
\* or removes the correlation, and a callback carrying that request id acts
\* on that identity and never fails with UnknownRequest.
C21_CorrelationKeptUntilCallback ==
  [][/\ \A r \in issued : requestToObservationId'[r] = requestToObservationId[r]
     /\ (last'.op = "requestReveal" /\ last'.result = Ok)
          => requestToObservationId'[last'.ret] = last'.id
     /\ (last'.op = "fulfill" /\ last'.requestId \in issued)
          => (/\ last'.id = requestToObservationId[last'.requestId]
              /\ last'.result # UnknownRequest)]_vars

\* the uint256 reading of a contributor's account address
AddressOf(caller) == IF caller = "alice" THEN 161 ELSE 176

\* C25: the stored encrypted observation of every assigned identity records
\* the contributor that submitted it as its owner and the region code it
\* was submitted under.
C25_RecordHoldsContributorAndRegion ==
  \A i \in AssignedIds :
    LET obs == encryptedObservations[i]
    IN /\ obs.observerId = AddressOf(contributor[i])
       /\ "regionCode" \in DOMAIN obs
       /\ obs.regionCode = namedRegions[i]

\* the notification a successful call of the reveal protocol emits
Notification(call) ==
  IF call.op = "submit" THEN Event("ObservationSubmitted", call.id, blockTimestamp')
  ELSE IF call.op = "requestReveal" THEN Event("DecryptionRequested", call.id, 0)
  ELSE Event("ObservationDecrypted", call.id, 0)

\* C26: a successful submit, requestReveal or fulfill emits exactly one
\* notification, carrying the identity it acted on; a failed call emits
\* none; observation-decrypted is emitted at most once per identity.
C26_OneNotificationPerSuccess ==
  [][/\ last'.result = Ok
          => events' = events (+) SetToBag({Notification(last')})
     /\ last'.result # Ok => events' = events
     /\ \A i \in ObservationIds :
          CopiesIn(Event("ObservationDecrypted", i, 0), events') <= 1]_vars

\* C27: every stored correlation and every revealed decrypted record refers
\* to an identity that submit has assigned.
C27_OnlyAssignedIdentitiesReferenced ==
  /\ \A r \in issued : requestToObservationId[r] \in AssignedIds
  /\ \A i \in ObservationIds :
       decryptedObservations[i].isRevealed => i \in AssignedIds

\* C23: the encrypted record of an existing observation (its four
\* ciphertexts and its submission time) is changed by no step: not by
\* requestReveal, by a successful or failed fulfill, by a later submit or by
\* regionalAverage.
C23_EncryptedRecordImmutable ==
  [][\A i \in AssignedIds :
       encryptedObservations'[i] = encryptedObservations[i]]_vars

C23_Witness ==
  /\ observationCount = 2
  /\ encryptedObservations[1] = NewEncryptedObservation(1, <<1, 2, 3, 4>>, 1)
  /\ decryptedObservations[1].isRevealed
  /\ \E r \in issued : requestToObservationId[r] = 1
  /\ averageCalls > 0
  /\ last.op = "fulfill"
  /\ last.result = ProofVerificationFailed

\* C28: whenever some region is registered, the divisor of regionalAverage,
\* the observation count truncated to 32 bits, is not zero, so the average
\* of a registered region never divides by an encrypted zero.
C28_DivisorNonZero ==
  regionList # <<>> => AsEuint32(Uint32(observationCount)).value # 0

\* the ciphertexts of the observation a request id is correlated to, as
\* lines 83-86 read them
CiphertextsOfRequested(r) ==
  RevealCiphertexts(encryptedObservations[requestToObservationId[r]])

\* C22: the ciphertexts put up for reveal under a request id are, at the
\* request and from then on, the brightness, latitude, longitude and
\* timestamp ciphertexts of the requested observation, in that order, so
\* that the opening a proof authenticates for the request id is the opening
\* of the observation's own four ciphertexts.
C22_RequestedCiphertextsAreOwn ==
  [][\A r \in issued :
       CiphertextsOfRequested(r)' = CiphertextsOfRequested(r)]_vars

\* a requestReveal on identity i has just succeeded
RequestSucceeded(i) ==
  /\ last.op = "requestReveal"
  /\ last.result = Ok
  /\ last.id = i

\* C24: with a fair oracle, every observation for which a requestReveal
\* succeeded is eventually Revealed, whatever submits, requests and failed
\* or replayed callbacks are interleaved.
C24_RequestedEventuallyRevealed ==
  \A i \in 1..MaxObservations :
    RequestSucceeded(i) ~> decryptedObservations[i].isRevealed

C24_Witness ==
  /\ observationCount = 2
  /\ Cardinality(issued) = 2
  /\ decryptedObservations[1].isRevealed
  /\ decryptedObservations[2].isRevealed
  /\ last.op = "fulfill"
  /\ last.result = AlreadyRevealed

\* the region table after a step: as before, or one new region appended
AtMostOneNewRegion ==
  \/ UNCHANGED <<encryptedRegionStats, regionList>>
  \/ \E code \in RegionCodes :
       /\ \A k \in 1..Len(regionList) : regionList[k] # code
       /\ regionList' = Append(regionList, code)
       /\ \A other \in RegionCodes \ {code} :
            encryptedRegionStats'[other] = encryptedRegionStats[other]

\* C29: submit changes only the records of the new identity, the count and
\* at most one new region entry, leaving every other record and the
\* pending-request table as they were; a successful fulfill changes only
\* the decrypted record of the observation correlated to its request id;
\* regionalAverage, aggregate, compare and getDecrypted change no stored
\* state.
C29_OperationsTouchOwnTarget ==
  [][/\ last'.op = "submit"
          => (/\ observationCount' = observationCount + 1
              /\ \A i \in ObservationIds \ {observationCount'} :
                   /\ encryptedObservations'[i] = encryptedObservations[i]
                   /\ decryptedObservations'[i] = decryptedObservations[i]
              /\ AtMostOneNewRegion
              /\ UNCHANGED requestToObservationId)
     /\ (last'.op = "fulfill" /\ last'.result = Ok)
          => (/\ \A i \in ObservationIds \ {requestToObservationId[last'.requestId]} :
                   decryptedObservations'[i] = decryptedObservations[i]
              /\ UNCHANGED <<observationCount, encryptedObservations,
                             encryptedRegionStats, regionList,
                             requestToObservationId>>)
     /\ last'.op \in {"regionalAverage", "aggregate", "compare", "getDecrypted"}
          => UNCHANGED storage]_vars

C29_Witness ==
  /\ observationCount = 2
  /\ Len(regionList) = 2
  /\ decryptedObservations[1].isRevealed
  /\ ~decryptedObservations[2].isRevealed
  /\ averageCalls > 0
  /\ last.op = "aggregate"
  /\ last.result = Ok

\* the record ids listed in the stored index
StoredKeys == ParseKeys(GetData(kvStore, KeysKey))

\* C30: when two submitRecord flows have both completed successfully,
\* whatever the interleaving of their getData and setData calls, the index
\* stored under light_pollution_keys lists the record ids of both.
C30_NoIndexAppendLost ==
  \A f \in Flows, g \in Flows :
    (f # g /\ flows[f].pc = "done" /\ flows[g].pc = "done")
      => \A h \in {f, g} :
           \E k \in 1..Len(StoredKeys) : StoredKeys[k] = NewRecordId(h)

\* the status of the body stored under a record id, "none" without a body
StoredStatus(recordId) ==
  LET recordBytes == GetData(kvStore, RecordKey(recordId))
  IN IF Len(recordBytes) > 0 THEN DecodeJson(recordBytes).status ELSE "none"

\* C31: a stored status moves only from pending to verified or from pending
\* to rejected; once it is verified or rejected, no step of a verifyRecord
\* or rejectRecord call changes it, whatever view the call was started from
\* and however it is interleaved with another call
C31_StoredStatusFinal ==
  [][\A f \in Flows :
       LET recordId == NewRecordId(f)
       IN /\ StoredStatus(recordId) \in {"verified", "rejected"}
               => StoredStatus(recordId)' = StoredStatus(recordId)
          /\ StoredStatus(recordId) = "pending"
               => StoredStatus(recordId)' \in {"pending", "verified", "rejected"}]_vars

\* C32: every record id listed in the index has a body stored under its
\* key, in every reachable state of the store: under every interleaving of
\* submitRecord, verifyRecord and rejectRecord and when a flow has failed
\* part-way
C32_IndexedRecordHasBody ==
  \A k \in 1..Len(StoredKeys) :
    Len(GetData(kvStore, RecordKey(StoredKeys[k]))) > 0

\* a record is indexed and its status has been rewritten by a record action,
\* while another submitRecord has failed after storing its body
C32_Witness ==
  \E f, g \in Flows :
    /\ f # g
    /\ \E k \in 1..Len(StoredKeys) : StoredKeys[k] = NewRecordId(f)
    /\ StoredStatus(NewRecordId(f)) \in {"verified", "rejected"}
    /\ flows[g].pc = "failed"
    /\ StoredStatus(NewRecordId(g)) = "pending"
    /\ \A k \in 1..Len(StoredKeys) : StoredKeys[k] # NewRecordId(g)

====
